---- MODULE Spec2Model ----
(***************************************************************************)
(* UPU S10 barcode generator (gen.py): the checksum, the display format    *)
(* and the batch loop of main.                                             *)
(*                                                                         *)
(* A Python string is a sequence of one-character strings.  Three          *)
(* non-ASCII characters are written by code point:                         *)
(*   "U+00DF"  LATIN SMALL LETTER SHARP S: isalpha, upper() = "SS"          *)
(*   "U+00B2"  SUPERSCRIPT TWO: isdigit, but int() raises ValueError        *)
(*   "U+0663"  ARABIC-INDIC DIGIT THREE: isdigit, int() = 3                 *)
(***************************************************************************)
EXTENDS Integers, Sequences, FiniteSets

(* ------------------------------------------------------------------ *)
(* Bounds of the model                                                  *)
(* ------------------------------------------------------------------ *)

\* Largest quantity argument drawn for a batch run.
MaxQuantity == 10

\* Largest number of digits in which a drawn 8-digit serial differs from a
\* base serial.
MaxDigitEdits == 1

\* Longest string handed to calculate_s10_checksum.
MaxLen == 9

\* Longest string handed to format_s10_text.
MaxIdLen == 14

(* ------------------------------------------------------------------ *)
(* Characters and the str methods the program uses                      *)
(* ------------------------------------------------------------------ *)

AsciiDigits == {"0", "1", "2", "3", "4", "5", "6", "7", "8", "9"}

UpperLetters == {"A", "C", "F", "H", "K", "N", "S"}

LowerLetters == {"a", "c", "f", "h", "k", "n", "s"}

SharpS == "U+00DF"

SuperscriptTwo == "U+00B2"

ArabicThree == "U+0663"

OtherChars == {" ", "-"}

Chars ==
    AsciiDigits \cup UpperLetters \cup LowerLetters
        \cup {SharpS, SuperscriptTwo, ArabicThree} \cup OtherChars

Min(a, b) == IF a <= b THEN a ELSE b

\* len(s)
len(s) == Len(s)

\* The characters str.isdigit() accepts
DigitChars == AsciiDigits \cup {SuperscriptTwo, ArabicThree}

\* The characters str.isalpha() accepts
AlphaChars == UpperLetters \cup LowerLetters \cup {SharpS}

\* The characters int() accepts as a decimal digit
IntChars == AsciiDigits \cup {ArabicThree}

\* str.isdigit() of one character
isdigit_char(c) == c \in DigitChars

\* str.isalpha() of one character
isalpha_char(c) == c \in AlphaChars

\* str.isdigit(): every character is a digit and there is at least one
isdigit(s) == Len(s) > 0 /\ \A k \in 1..Len(s) : isdigit_char(s[k])

\* str.isalpha()
isalpha(s) == Len(s) > 0 /\ \A k \in 1..Len(s) : isalpha_char(s[k])

\* str.isalnum(): every character is alphabetic, decimal, digit or numeric
isalnum(s) ==
    Len(s) > 0 /\ \A k \in 1..Len(s) : isalpha_char(s[k]) \/ isdigit_char(s[k])

\* Whether int() accepts the character as a decimal digit
int_accepts(c) == c \in IntChars

\* The value of each decimal digit character
DigitValue ==
    [c \in IntChars |->
        CASE c = "0" -> 0 [] c = "1" -> 1 [] c = "2" -> 2 [] c = "3" -> 3
          [] c = "4" -> 4 [] c = "5" -> 5 [] c = "6" -> 6 [] c = "7" -> 7
          [] c = "8" -> 8 [] c = "9" -> 9 [] c = ArabicThree -> 3]

\* int() of one decimal digit character
int_char(c) == DigitValue[c]

\* str.upper() of one character: a string, since one character may become two
upper_char(c) ==
    CASE c = "a" -> <<"A">> [] c = "c" -> <<"C">> [] c = "f" -> <<"F">>
      [] c = "h" -> <<"H">> [] c = "k" -> <<"K">> [] c = "n" -> <<"N">>
      [] c = "s" -> <<"S">> [] c = SharpS -> <<"S", "S">>
      [] OTHER -> <<c>>

RECURSIVE upper(_)
\* str.upper()
upper(s) == IF s = <<>> THEN <<>> ELSE upper_char(Head(s)) \o upper(Tail(s))

RECURSIVE int_str(_)
\* int(s) of a non-empty string of characters int() accepts
int_str(s) ==
    IF Len(s) = 1 THEN int_char(s[1])
    ELSE 10 * int_str(SubSeq(s, 1, Len(s) - 1)) + int_char(s[Len(s)])

DigitChar(d) ==
    CASE d = 0 -> "0" [] d = 1 -> "1" [] d = 2 -> "2" [] d = 3 -> "3"
      [] d = 4 -> "4" [] d = 5 -> "5" [] d = 6 -> "6" [] d = 7 -> "7"
      [] d = 8 -> "8" [] d = 9 -> "9"

RECURSIVE str(_)
\* str(n) of an integer n >= 0
str(n) == IF n < 10 THEN <<DigitChar(n)>> ELSE str(n \div 10) \o <<DigitChar(n % 10)>>

RECURSIVE zfill(_, _)
\* str.zfill(width) of a string without a sign
zfill(s, width) == IF Len(s) >= width THEN s ELSE zfill(<<"0">> \o s, width)

\* s[a:b] for 0 <= a <= b
Slice(s, a, b) == SubSeq(s, a + 1, Min(b, Len(s)))

(* ------------------------------------------------------------------ *)
(* calculate_s10_checksum                                               *)
(* ------------------------------------------------------------------ *)

\* The weights with the last two exchanged
weights_last_two_swapped == <<8, 6, 4, 2, 3, 5, 7, 9>>

weights == <<8, 6, 4, 2, 3, 5, 9, 7>>

RECURSIVE SumZip(_, _, _)
\* sum(int(digit) * weight for digit, weight in zip(serial_number, ws)),
\* over the first n pairs
SumZip(serial_number, ws, n) ==
    IF n = 0 THEN 0
    ELSE SumZip(serial_number, ws, n - 1) + int_char(serial_number[n]) * ws[n]

\* The local s of calculate_s10_checksum
weighted_sum(serial_number) ==
    SumZip(serial_number, weights, Min(Len(serial_number), Len(weights)))

Returned(v) == [raised |-> "", value |-> v]

Raised(e) == [raised |-> e, value |-> -1]

\* checksum_of_sum without the override of 10
checksum_without_override_of_10(s) ==
    LET checksum == 11 - (s % 11)
    IN  IF checksum = 11 THEN 5 ELSE checksum

\* checksum_of_sum with the two override values exchanged
checksum_with_overrides_exchanged(s) ==
    LET checksum == 11 - (s % 11)
    IN  IF checksum = 10 THEN 5
        ELSE IF checksum = 11 THEN 0
        ELSE checksum

\* The override rules applied to checksum = 11 - (s % 11)
checksum_of_sum(s) ==
    LET checksum == 11 - (s % 11)
    IN  IF checksum = 10 THEN 0
        ELSE IF checksum = 11 THEN 5
        ELSE checksum

\* The guard with "and" in place of "or"
checksum_guard_fails_with_and(serial_number) ==
    ~isdigit(serial_number) /\ len(serial_number) # 8

\* The guard of calculate_s10_checksum
checksum_guard_fails(serial_number) ==
    ~isdigit(serial_number) \/ len(serial_number) # 8

calculate_s10_checksum(serial_number) ==
    IF checksum_guard_fails(serial_number)
    THEN Raised("ValueError")
    ELSE IF \E k \in 1..Min(Len(serial_number), Len(weights)) :
                ~int_accepts(serial_number[k])
    THEN Raised("ValueError")
    ELSE Returned(checksum_of_sum(weighted_sum(serial_number)))

(* ------------------------------------------------------------------ *)
(* format_s10_text                                                      *)
(* ------------------------------------------------------------------ *)

\* format_s10_text with the checksum slice one character too long
format_s10_text_cs_to_12(s10_id) ==
    LET si  == Slice(s10_id, 0, 2)
        sn1 == Slice(s10_id, 2, 6)
        sn2 == Slice(s10_id, 6, 10)
        cs  == Slice(s10_id, 10, 12)
        cc  == Slice(s10_id, 11, 13)
    IN  si \o <<" ">> \o sn1 \o <<" ">> \o sn2 \o <<" ">> \o cs \o <<" ">> \o cc

format_s10_text(s10_id) ==
    LET si  == Slice(s10_id, 0, 2)
        sn1 == Slice(s10_id, 2, 6)
        sn2 == Slice(s10_id, 6, 10)
        cs  == Slice(s10_id, 10, 11)
        cc  == Slice(s10_id, 11, 13)
    IN  si \o <<" ">> \o sn1 \o <<" ">> \o sn2 \o <<" ">> \o cs \o <<" ">> \o cc

(* ------------------------------------------------------------------ *)
(* State                                                                *)
(* ------------------------------------------------------------------ *)

VARIABLES
    \* a direct call of calculate_s10_checksum
    cs_pc,            \* "idle", "call", "returned" or "raised"
    serial_number,    \* the argument
    cs_result,        \* what the call returned or raised
    \* a direct call of format_s10_text
    fmt_pc,           \* "idle", "call" or "returned"
    s10_id,           \* the argument
    formatted_text,   \* the string returned
    \* a run of main
    pc,               \* "idle", "validate", "prepare", "loop", "complete", "exit"
    args,             \* the parsed command line
    env,              \* what the process finds: the fonts, the encoding of stdout
    si,               \* args.service_indicator.upper()
    cc,               \* args.country_or_regional_code.upper()
    start_sn,         \* int(args.start_serial_number), -1 before it is set
    output_dir,       \* the directories os.makedirs has made
    i,                \* the loop variable
    full_s10_id,      \* the identifier computed last, <<>> before the first
    files,            \* the files saved, in the order they were saved
    stdout,           \* what was printed to standard output
    stderr,           \* what was printed to standard error
    exit_status       \* the exit status of the process, -1 while it runs

cs_vars == <<cs_pc, serial_number, cs_result>>

fmt_vars == <<fmt_pc, s10_id, formatted_text>>

main_vars ==
    <<pc, args, env, si, cc, start_sn, output_dir, i, full_s10_id, files, stdout,
      stderr, exit_status>>

vars == <<cs_vars, fmt_vars, main_vars>>

NoEnv == [arial_black |-> FALSE, stdout_encoding |-> ""]

NoArgs ==
    [service_indicator |-> <<>>, start_serial_number |-> <<>>,
     country_or_regional_code |-> <<>>, quantity |-> 0, directory |-> ""]

\* No call of calculate_s10_checksum is in progress
ChecksumIdle ==
    /\ cs_pc = "idle"
    /\ serial_number = <<>>
    /\ cs_result = Raised("")

\* No call of format_s10_text is in progress
FormatIdle ==
    /\ fmt_pc = "idle"
    /\ s10_id = <<>>
    /\ formatted_text = <<>>

\* main is not running
MainIdle ==
    /\ pc = "idle"
    /\ args = NoArgs
    /\ env = NoEnv
    /\ si = <<>>
    /\ cc = <<>>
    /\ start_sn = -1
    /\ output_dir = {}
    /\ i = 0
    /\ full_s10_id = <<>>
    /\ files = <<>>
    /\ stdout = <<>>
    /\ stderr = <<>>
    /\ exit_status = -1

(* ------------------------------------------------------------------ *)
(* Direct calls of calculate_s10_checksum                               *)
(* ------------------------------------------------------------------ *)

BaseSerials ==
    { <<"0", "0", "0", "0", "0", "0", "0", "0">>,
      <<"6", "0", "0", "0", "0", "0", "0", "0">>,
      <<"1", "2", "3", "4", "5", "6", "7", "8">>,
      <<"9", "9", "9", "9", "9", "9", "9", "5">>,
      <<"9", "9", "9", "9", "9", "9", "9", "9">> }

RECURSIVE SerialsWithin(_)
\* The 8-digit strings that differ from a base serial in at most n digits
SerialsWithin(n) ==
    IF n = 0 THEN BaseSerials
    ELSE LET S == SerialsWithin(n - 1)
         IN  S \cup {[s EXCEPT ![p] = d] : s \in S, p \in 1..8, d \in AsciiDigits}

DigitSerials == SerialsWithin(MaxDigitEdits)

\* A base serial with one character replaced by one that is no ASCII digit
NonAsciiDigitEdits ==
    {[b EXCEPT ![p] = c] : b \in BaseSerials, p \in 1..8, c \in Chars \ AsciiDigits}

\* s cut or repeated to n characters
Resize(s, n) == [k \in 1..n |-> s[((k - 1) % Len(s)) + 1]]

SerialInputs ==
    DigitSerials
        \cup {Resize(s, n) : s \in BaseSerials \cup NonAsciiDigitEdits, n \in 0..MaxLen}

InitChecksum ==
    /\ MainIdle
    /\ FormatIdle
    /\ cs_pc = "call"
    /\ serial_number \in SerialInputs
    /\ cs_result = Raised("")

\* calculate_s10_checksum(serial_number) returns
ChecksumReturns ==
    /\ cs_pc = "call"
    /\ calculate_s10_checksum(serial_number).raised = ""
    /\ cs_pc' = "returned"
    /\ cs_result' = calculate_s10_checksum(serial_number)
    /\ UNCHANGED <<serial_number, fmt_vars, main_vars>>

\* calculate_s10_checksum(serial_number) raises
ChecksumRaises ==
    /\ cs_pc = "call"
    /\ calculate_s10_checksum(serial_number).raised # ""
    /\ cs_pc' = "raised"
    /\ cs_result' = calculate_s10_checksum(serial_number)
    /\ UNCHANGED <<serial_number, fmt_vars, main_vars>>

NextChecksum == ChecksumReturns \/ ChecksumRaises

SpecChecksum == InitChecksum /\ [][NextChecksum]_vars

(* ------------------------------------------------------------------ *)
(* Direct calls of format_s10_text                                      *)
(* ------------------------------------------------------------------ *)

\* 13-character strings: 2 + 8 + 1 + 2 characters, some holding a space
Ids13 ==
    {a \o b \o <<c>> \o d :
        a \in {<<"H", "F">>, <<"K", "A">>, <<"H", " ">>},
        b \in BaseSerials,
        c \in {"0", "5", "7", " "},
        d \in {<<"C", "N">>, <<"1", "1">>, <<"C", " ">>}}

IdInputs == Ids13 \cup {Resize(x, n) : x \in Ids13, n \in 0..MaxIdLen}

InitFormat ==
    /\ MainIdle
    /\ ChecksumIdle
    /\ fmt_pc = "call"
    /\ s10_id \in IdInputs
    /\ formatted_text = <<>>

\* format_s10_text(s10_id) returns
FormatReturns ==
    /\ fmt_pc = "call"
    /\ fmt_pc' = "returned"
    /\ formatted_text' = format_s10_text(s10_id)
    /\ UNCHANGED <<s10_id, cs_vars, main_vars>>

NextFormat == FormatReturns

SpecFormat == InitFormat /\ [][NextFormat]_vars

(* ------------------------------------------------------------------ *)
(* main: the command line                                               *)
(* ------------------------------------------------------------------ *)

ServiceIndicatorInputs ==
    { <<"H", "F">>, <<"k", "a">>, <<SharpS, "a">>,
      <<"A", "1">>, <<"H">>, <<"H", "F", "K">> }

StartSerialInputs ==
    BaseSerials
        \cup { <<"9", "9", "9", "9", "9", "9", "9", "0">>,
               <<ArabicThree, "0", "0", "0", "0", "0", "0", "0">>,
               <<SuperscriptTwo, "2", "3", "4", "5", "6", "7", "8">>,
               <<"1", "2", "3", "4", "5", "6", "7">>,
               <<"1", "2", "3", "4", "5", "6", "7", "8", "9">>,
               <<"1", "2", "3", "4", "5", "6", "7", "a">> }

CodeInputs ==
    { <<"c", "n">>, <<"1", "1">>, <<SharpS, "1">>, <<"C", "-">>, <<"C">> }

QuantityInputs == (-1)..MaxQuantity

\* A directory name with a character outside cp1252 (U+51FA, a CJK ideograph)
NonAsciiDirectory == "U+51FA"

DirectoryInputs == {"barcodes", NonAsciiDirectory}

ArgsInputs ==
    [service_indicator : ServiceIndicatorInputs,
     start_serial_number : StartSerialInputs,
     country_or_regional_code : CodeInputs,
     quantity : QuantityInputs,
     directory : DirectoryInputs]

\* Whether ImageFont.truetype finds ariblk.ttf, and the encoding of sys.stdout
EnvInputs == [arial_black : BOOLEAN, stdout_encoding : {"utf-8", "cp1252"}]

\* Whether the encoding has U+2705, the check mark of the progress line
encodes_check_mark(encoding) == encoding = "utf-8"

\* Whether the encoding has every character of the directory name, which the
\* line announcing the batch quotes
encodes_directory(encoding, directory) ==
    encoding = "utf-8" \/ directory # NonAsciiDirectory

Line(msg, n, id) == [msg |-> msg, n |-> n, id |-> id]

\* The stream after print() or sys.stdout.write() has added a line
Write(stream, msg, n, id) == Append(stream, Line(msg, n, id))

InitMain ==
    /\ ChecksumIdle
    /\ FormatIdle
    /\ pc = "validate"
    /\ args \in ArgsInputs
    /\ env \in EnvInputs
    /\ si = <<>>
    /\ cc = <<>>
    /\ start_sn = -1
    /\ output_dir = {}
    /\ i = 0
    /\ full_s10_id = <<>>
    /\ files = <<>>
    /\ stdout = <<>>
    /\ stderr = <<>>
    /\ exit_status = -1

(* ------------------------------------------------------------------ *)
(* main: input validation                                               *)
(* ------------------------------------------------------------------ *)

\* The first check with "and" in place of "or"
service_indicator_invalid_with_and(s) == len(s) # 2 /\ ~isalpha(s)

service_indicator_invalid(s) == len(s) # 2 \/ ~isalpha(s)

start_serial_number_invalid(s) == len(s) # 8 \/ ~isdigit(s)

country_or_regional_code_invalid(s) == len(s) # 2 \/ ~isalnum(s)

quantity_invalid(n) == n <= 0

\* print(msg, file=sys.stderr); sys.exit(1)
ExitWithError(msg, id) ==
    /\ stderr' = Write(stderr, msg, -1, id)
    /\ exit_status' = 1
    /\ pc' = "exit"

\* The four checks, in order: the first that fails ends the process
Validate ==
    /\ pc = "validate"
    /\ IF service_indicator_invalid(args.service_indicator)
       THEN ExitWithError("Error: Service indicator must be 2 alphabetic characters.", <<>>)
       ELSE IF start_serial_number_invalid(args.start_serial_number)
       THEN ExitWithError("Error: Starting serial number must be 8 digits.", <<>>)
       ELSE IF country_or_regional_code_invalid(args.country_or_regional_code)
       THEN ExitWithError("Error: Country/regional code must be 2 alphanumeric characters.", <<>>)
       ELSE IF quantity_invalid(args.quantity)
       THEN ExitWithError("Error: Quantity must be a positive integer.", <<>>)
       ELSE /\ pc' = "prepare"
            /\ UNCHANGED <<stderr, exit_status>>
    /\ UNCHANGED <<args, env, si, cc, start_sn, output_dir, i, full_s10_id, files, stdout>>
    /\ UNCHANGED <<cs_vars, fmt_vars>>

(* ------------------------------------------------------------------ *)
(* main: preparation                                                    *)
(* ------------------------------------------------------------------ *)

\* si, cc and start_sn are set, the directory is made and the start is
\* announced.  int() raising ValueError, os.makedirs raising OSError and
\* print() raising UnicodeEncodeError (a directory name stdout cannot encode)
\* are caught by nobody: each ends the process with status 1 and a traceback
\* on stderr and nothing printed to stdout, the first before start_sn is set,
\* the first two with no directory made
Prepare ==
    /\ pc = "prepare"
    /\ si' = upper(args.service_indicator)
    /\ cc' = upper(args.country_or_regional_code)
    /\ IF \E k \in 1..Len(args.start_serial_number) :
              ~int_accepts(args.start_serial_number[k])
       THEN /\ ExitWithError("ValueError: invalid literal for int() with base 10", <<>>)
            /\ UNCHANGED <<start_sn, output_dir, stdout>>
       ELSE /\ start_sn' = int_str(args.start_serial_number)
            /\ \E made \in BOOLEAN :
                   IF made
                   THEN /\ output_dir' = output_dir \cup {args.directory}
                        /\ IF encodes_directory(env.stdout_encoding, args.directory)
                           THEN /\ stdout' = Write(stdout, "Generating", args.quantity, <<>>)
                                /\ pc' = "loop"
                                /\ UNCHANGED <<stderr, exit_status>>
                           ELSE /\ ExitWithError("UnicodeEncodeError: print", <<>>)
                                /\ UNCHANGED stdout
                   ELSE /\ ExitWithError("OSError: os.makedirs", <<>>)
                        /\ UNCHANGED <<output_dir, stdout>>
    /\ UNCHANGED <<args, env, i, full_s10_id, files>>
    /\ UNCHANGED <<cs_vars, fmt_vars>>

(* ------------------------------------------------------------------ *)
(* main: the generation loop                                            *)
(* ------------------------------------------------------------------ *)

\* current_sn_int one too far
current_sn_int_off_by_one(start, idx) == start + idx + 1

\* current_sn_int = start_sn + i
current_sn_int(start, idx) == start + idx

\* sn_str = str(current_sn_int).zfill(8)
sn_str_of(n) == zfill(str(n), 8)


\* len(sn_str) > 8
exceeds_8_digits(sn_str) == len(sn_str) > 8

\* full_s10_id = f"{si}{sn_str}{cs}{cc}"
s10_id_of(si_, sn_str, cs, cc_) == si_ \o sn_str \o str(cs) \o cc_

\* os.path.join(output_dir, f"{full_s10_id}.png")
output_filename_of(dir, id) == [dir |-> dir, name |-> id \o <<".", "p", "n", "g">>]

\* The line generate_upu_barcode prints when ariblk.ttf is not found
font_warning(arial_black) ==
    IF arial_black THEN <<>>
    ELSE <<Line("Warning: Arial Black font not found. Using default bold font.", -1, <<>>)>>

\* generate_upu_barcode: what it prints to stdout and, by how far it gets,
\* what it saves or raises.  "render" is a failure before the font is loaded
\* (the barcode), "save" one after it (the drawing, the saving): nothing is
\* saved then.  The file is the file name, the identifier encoded in the
\* barcode, the text drawn under it and whether the green bar is drawn
generate_upu_barcode(id, output_filename, code_extension, arial_black, outcome) ==
    [printed |-> IF outcome = "render" THEN <<>> ELSE font_warning(arial_black),
     raised |-> IF outcome = "ok" THEN ""
                ELSE "Error: An error occurred during barcode generation",
     saved |-> IF outcome = "ok"
               THEN <<[filename |-> output_filename,
                       barcode |-> id,
                       text |-> format_s10_text(id),
                       green_bar |-> isdigit(code_extension)]>>
               ELSE <<>>]

\* The handler of the loop, going on with the next serial instead of exiting
OnGenerationErrorContinue(msg, id) ==
    /\ stderr' = Write(stderr, msg, -1, id)
    /\ i' = i + 1
    /\ UNCHANGED <<pc, exit_status>>

\* except Exception as e: print the error to stderr; sys.exit(1)
OnGenerationError(msg, id) ==
    /\ ExitWithError(msg, id)
    /\ UNCHANGED i

\* range(args.quantity) is exhausted
LoopExhausted ==
    /\ pc = "loop"
    /\ i >= args.quantity
    /\ pc' = "complete"
    /\ UNCHANGED <<args, env, si, cc, start_sn, output_dir, i, full_s10_id, files,
                   stdout, stderr, exit_status>>
    /\ UNCHANGED <<cs_vars, fmt_vars>>

\* An iteration whose serial has more than 8 digits: the warning and break
LoopOverflow ==
    /\ pc = "loop"
    /\ i < args.quantity
    /\ exceeds_8_digits(sn_str_of(current_sn_int(start_sn, i)))
    /\ stderr' = Write(stderr, "Warning: Serial number has exceeded 8 digits", i, <<>>)
    /\ pc' = "complete"
    /\ UNCHANGED <<args, env, si, cc, start_sn, output_dir, i, full_s10_id, files,
                   stdout, exit_status>>
    /\ UNCHANGED <<cs_vars, fmt_vars>>

\* An iteration that computes an identifier, renders it and writes the
\* progress line, all inside the try.  The rendering succeeds or raises; the
\* progress line holds U+2705, and writing it raises UnicodeEncodeError, after
\* the file was saved, when the encoding of stdout has no such character
LoopGenerate ==
    /\ pc = "loop"
    /\ i < args.quantity
    /\ LET sn_str == sn_str_of(current_sn_int(start_sn, i))
           cs == calculate_s10_checksum(sn_str)
           id == s10_id_of(si, sn_str, cs.value, cc)
       IN  /\ ~exceeds_8_digits(sn_str)
           /\ IF cs.raised # ""
              THEN /\ OnGenerationError("Error: Serial number must be an 8-digit string.", <<>>)
                   /\ UNCHANGED <<full_s10_id, files, stdout>>
              ELSE /\ full_s10_id' = id
                   /\ \E outcome \in {"ok", "render", "save"} :
                          LET g == generate_upu_barcode(
                                       id, output_filename_of(args.directory, id), cc,
                                       env.arial_black, outcome)
                          IN  /\ files' = files \o g.saved
                              /\ IF g.raised # ""
                                 THEN /\ stdout' = stdout \o g.printed
                                      /\ OnGenerationError(g.raised, id)
                                 ELSE IF ~encodes_check_mark(env.stdout_encoding)
                                 THEN /\ stdout' = stdout \o g.printed
                                      /\ OnGenerationError(
                                             "Error: codec can't encode character U+2705", <<>>)
                                 ELSE /\ stdout' =
                                             Write(stdout \o g.printed, "Generated", i + 1, id)
                                      /\ i' = i + 1
                                      /\ UNCHANGED <<pc, stderr, exit_status>>
    /\ UNCHANGED <<args, env, si, cc, start_sn, output_dir>>
    /\ UNCHANGED <<cs_vars, fmt_vars>>

\* After the loop: the closing line, and the process ends normally
Complete ==
    /\ pc = "complete"
    /\ stdout' = Write(stdout, "Batch generation complete.", -1, <<>>)
    /\ exit_status' = 0
    /\ pc' = "done"
    /\ UNCHANGED <<args, env, si, cc, start_sn, output_dir, i, full_s10_id, files, stderr>>
    /\ UNCHANGED <<cs_vars, fmt_vars>>

Next == Validate \/ Prepare \/ LoopExhausted \/ LoopOverflow \/ LoopGenerate \/ Complete

Spec == InitMain /\ [][Next]_vars

(* ------------------------------------------------------------------ *)
(* Properties of calculate_s10_checksum                                 *)
(* ------------------------------------------------------------------ *)

\* The characters that are decimal digits
DecimalDigitChars == {"0", "1", "2", "3", "4", "5", "6", "7", "8", "9", ArabicThree}

\* s is a string of exactly 8 decimal digits
EightDigits(s) == Len(s) = 8 /\ \A k \in 1..8 : s[k] \in DecimalDigitChars

\* The checksum the S10 rule gives the 8 digits of s
S10Rule(s) ==
    LET d(k) == int_char(s[k])
        sum == 8 * d(1) + 6 * d(2) + 4 * d(3) + 2 * d(4)
                 + 3 * d(5) + 5 * d(6) + 9 * d(7) + 7 * d(8)
        r == 11 - (sum % 11)
    IN  CASE r = 10 -> 0 [] r = 11 -> 5 [] OTHER -> r

Serial60000000 == <<"6", "0", "0", "0", "0", "0", "0", "0">>

\* C1: for every string of exactly 8 decimal digits d1..d8 the call returns c,
\* where s = 8*d1 + 6*d2 + 4*d3 + 2*d4 + 3*d5 + 5*d6 + 9*d7 + 7*d8 and
\* r = 11 - (s mod 11): c = 0 if r = 10, c = 5 if r = 11, c = r otherwise;
\* serial 60000000 gives 7.
C1_ChecksumFollowsS10Rule ==
    (cs_pc # "call" /\ EightDigits(serial_number)) =>
        /\ cs_pc = "returned"
        /\ cs_result = Returned(S10Rule(serial_number))
        /\ serial_number = Serial60000000 => cs_result.value = 7

\* The known vector has been computed
C1_Witness ==
    /\ cs_pc = "returned"
    /\ serial_number = Serial60000000
    /\ cs_result.value = 7

\* C7: for all 8-digit strings the call returns a single decimal digit, an
\* integer in 0..9, never 10, 11 or a negative value.
C7_ChecksumIsOneDigit ==
    /\ cs_pc = "returned" => cs_result.value \in 0..9
    /\ (cs_pc # "call" /\ EightDigits(serial_number)) => cs_pc = "returned"

\* A serial whose raw value 11 - (s mod 11) is 10 has been given checksum 0
C7_Witness ==
    /\ cs_pc = "returned"
    /\ EightDigits(serial_number)
    /\ 11 - (weighted_sum(serial_number) % 11) = 10
    /\ cs_result.value = 0

\* C8: the call raises ValueError and returns no checksum whenever its input
\* is not exactly 8 characters long or holds a character that is not a decimal
\* digit; it returns a checksum only for inputs of exactly 8 digits.
C8_InvalidInputRaisesValueError ==
    /\ (cs_pc # "call" /\ ~EightDigits(serial_number)) =>
           /\ cs_pc = "raised"
           /\ cs_result = Raised("ValueError")
    /\ cs_pc = "returned" => EightDigits(serial_number)

\* A string of 9 ASCII digits has been refused
C8_Witness ==
    /\ cs_pc = "raised"
    /\ Len(serial_number) = 9
    /\ \A k \in 1..9 : serial_number[k] \in AsciiDigits
    /\ cs_result.raised = "ValueError"

\* The serials that differ from s in exactly one digit position
OneDigitChanges(s) ==
    UNION {{[s EXCEPT ![p] = d] : d \in AsciiDigits \ {s[p]}} : p \in 1..8}

\* C10: two 8-digit serials that differ in exactly one digit position get
\* different checksums unless both checksums are 5; the weighted-sum residues
\* 0 and 6 mod 11 both give 5, and every other checksum digit comes from one
\* residue only.
C10_SingleDigitChangeDetectedUnlessFive ==
    (cs_pc = "returned" /\ \A k \in 1..8 : serial_number[k] \in AsciiDigits) =>
        LET c == cs_result.value
            m == weighted_sum(serial_number) % 11
        IN  /\ \A t \in OneDigitChanges(serial_number) :
                   LET ct == calculate_s10_checksum(t)
                   IN  /\ ct.raised = ""
                       /\ ct.value = c => c = 5
            /\ c = 5 <=> m \in {0, 6}
            /\ c # 5 => m = (IF c = 0 THEN 1 ELSE 11 - c)

\* A serial with checksum 5 that one digit change turns into another serial
\* with checksum 5
C10_Witness ==
    /\ cs_pc = "returned"
    /\ \A k \in 1..8 : serial_number[k] \in AsciiDigits
    /\ cs_result.value = 5
    /\ \E t \in OneDigitChanges(serial_number) :
           calculate_s10_checksum(t) = Returned(5)

(* ------------------------------------------------------------------ *)
(* Properties of format_s10_text                                        *)
(* ------------------------------------------------------------------ *)

RECURSIVE WithoutSpaces(_)
\* s with its spaces deleted
WithoutSpaces(s) ==
    IF s = <<>> THEN <<>>
    ELSE IF Head(s) = " " THEN WithoutSpaces(Tail(s))
    ELSE <<Head(s)>> \o WithoutSpaces(Tail(s))

IdHF600000007CN == <<"H", "F", "6", "0", "0", "0", "0", "0", "0", "0", "7", "C", "N">>

TextHF600000007CN ==
    <<"H", "F", " ", "6", "0", "0", "0", " ", "0", "0", "0", "0", " ", "7", " ",
      "C", "N">>

\* C6: for every 13-character identifier x, format_s10_text(x) is the
\* 17-character string x[0:2] ' ' x[2:6] ' ' x[6:10] ' ' x[10:11] ' ' x[11:13]
\* and nothing else: when x holds no space, deleting the spaces of the result
\* gives x back, and HF600000007CN is shown as "HF 6000 0000 7 CN".
C6_FormatSplitsInGroups ==
    (fmt_pc = "returned" /\ Len(s10_id) = 13) =>
        /\ formatted_text =
               SubSeq(s10_id, 1, 2) \o <<" ">> \o SubSeq(s10_id, 3, 6) \o <<" ">>
                 \o SubSeq(s10_id, 7, 10) \o <<" ">> \o SubSeq(s10_id, 11, 11)
                 \o <<" ">> \o SubSeq(s10_id, 12, 13)
        /\ Len(formatted_text) = 17
        /\ (\A k \in 1..13 : s10_id[k] # " ") => WithoutSpaces(formatted_text) = s10_id
        /\ s10_id = IdHF600000007CN => formatted_text = TextHF600000007CN

\* The documented example has been formatted
C6_Witness ==
    /\ fmt_pc = "returned"
    /\ s10_id = IdHF600000007CN
    /\ formatted_text = TextHF600000007CN

(* ------------------------------------------------------------------ *)
(* Properties of main                                                   *)
(* ------------------------------------------------------------------ *)

\* The serial carried by the k-th file saved: the 8 characters after si
SerialOfFile(k) == SubSeq(files[k].barcode, Len(si) + 1, Len(si) + 8)

\* The value of a string of ASCII digits
RECURSIVE DecimalValue(_)
DecimalValue(s) ==
    IF s = <<>> THEN 0
    ELSE 10 * DecimalValue(SubSeq(s, 1, Len(s) - 1)) + DigitValue[s[Len(s)]]

\* The one-character string of a digit 0..9
DigitString(d) ==
    <<CASE d = 0 -> "0" [] d = 1 -> "1" [] d = 2 -> "2" [] d = 3 -> "3" [] d = 4 -> "4"
        [] d = 5 -> "5" [] d = 6 -> "6" [] d = 7 -> "7" [] d = 8 -> "8" [] d = 9 -> "9">>

\* C2: every identifier the batch loop emits is exactly 13 characters: the
\* upper-cased 2-letter service indicator, an 8-digit zero-padded serial, one
\* digit equal to calculate_s10_checksum of those 8 digits, and the
\* upper-cased 2-character destination code; its file is <identifier>.png in
\* the output directory.
C2_EmittedIdentifierHas13Characters ==
    \A k \in 1..Len(files) :
        LET id == files[k].barcode
        IN  /\ Len(id) = 13
            /\ SubSeq(id, 1, 2) = upper(args.service_indicator)
            /\ \A j \in 3..10 : id[j] \in AsciiDigits
            /\ calculate_s10_checksum(SubSeq(id, 3, 10)).raised = ""
            /\ <<id[11]>> = DigitString(calculate_s10_checksum(SubSeq(id, 3, 10)).value)
            /\ SubSeq(id, 12, 13) = upper(args.country_or_regional_code)
            /\ files[k].filename =
                   [dir |-> args.directory, name |-> id \o <<".", "p", "n", "g">>]

\* C3: the k-th identifier emitted (k = 0, 1, ...) carries the serial S + k
\* zero-padded to 8 digits, with the checksum of that serial; successive
\* serials increase by exactly 1, none skipped, repeated or out of order.
C3_SerialsAreConsecutive ==
    \A k \in 1..Len(files) :
        LET id == files[k].barcode
            sn == SerialOfFile(k)
        IN  /\ Len(sn) = 8
            /\ \A j \in 1..8 : sn[j] \in AsciiDigits
            /\ DecimalValue(sn) = start_sn + (k - 1)
            /\ id = si \o sn \o DigitString(S10Rule(sn)) \o cc
            /\ k > 1 => DecimalValue(sn) = DecimalValue(SerialOfFile(k - 1)) + 1

\* A batch of 3 or more from 12345678 has completed
C3_Witness ==
    /\ pc = "done"
    /\ start_sn = 12345678
    /\ Len(files) >= 3
    /\ Len(files) = args.quantity
    /\ SerialOfFile(3) = <<"1", "2", "3", "4", "5", "6", "8", "0">>

IsWarning(l) == l.msg = "Warning: Serial number has exceeded 8 digits"

\* The error generate_upu_barcode raises: a rendering, drawing or saving failure
IsRenderingError(l) == l.msg = "Error: An error occurred during barcode generation"

\* An error the handler of the loop reports
IsGenerationError(l) ==
    l.msg \in {"Error: An error occurred during barcode generation",
               "Error: Serial number must be an 8-digit string.",
               "Error: codec can't encode character U+2705"}

\* A rendering, compositing or I/O failure: generate_upu_barcode raises, or
\* the output directory cannot be made
IsRenderingOrIOFailure(l) == IsRenderingError(l) \/ l.msg = "OSError: os.makedirs"

\* What C4 says of a completed batch
C4_CountAtCompletion ==
    /\ Len(files) = Min(args.quantity, 100000000 - start_sn)
    /\ exit_status = 0
    /\ stdout[Len(stdout)].msg = "Batch generation complete."
    /\ IF start_sn + args.quantity - 1 > 99999999
       THEN /\ stderr = <<Line("Warning: Serial number has exceeded 8 digits",
                               100000000 - start_sn, <<>>)>>
            /\ Len(files) > 0 => DecimalValue(SerialOfFile(Len(files))) = 99999999
       ELSE stderr = <<>>

\* One of the four input constraints is violated.  Alphabetic and alphanumeric
\* are read as Unicode reads them (a superscript digit is alphanumeric); a
\* serial digit is a decimal digit, which a superscript digit is not.
InputViolated(a) ==
    \/ ~(Len(a.service_indicator) = 2
           /\ \A k \in 1..2 : a.service_indicator[k] \in UpperLetters \cup LowerLetters \cup {SharpS})
    \/ ~(Len(a.start_serial_number) = 8
           /\ \A k \in 1..8 : a.start_serial_number[k] \in DecimalDigitChars)
    \/ ~(Len(a.country_or_regional_code) = 2
           /\ \A k \in 1..2 :
                  a.country_or_regional_code[k]
                      \in UpperLetters \cup LowerLetters \cup {SharpS} \cup DecimalDigitChars
                            \cup {SuperscriptTwo})
    \/ a.quantity <= 0

\* C4: in a batch run with valid start serial S and quantity N and no
\* rendering failure (rendering, compositing, saving, making the directory),
\* the run ends in normal completion, not the error exit, with exactly
\* min(N, 100000000 - S) identifiers emitted: past 99999999 the loop stops
\* right after serial 99999999 and the warning reports that count.
C4_BatchStopsAfter99999999 ==
    (/\ pc \in {"done", "exit"}
     /\ ~InputViolated(args)
     /\ \A j \in 1..Len(stderr) : ~IsRenderingOrIOFailure(stderr[j])) =>
        /\ pc = "done"
        /\ C4_CountAtCompletion

\* C5: if an input constraint is violated, main exits with a non-zero status
\* before any output exists: the directory is not made, no identifier is
\* computed and no file is written.
C5_InvalidInputExitsBeforeOutput ==
    InputViolated(args) =>
        /\ pc \in {"validate", "prepare", "exit"}
        /\ pc = "exit" => exit_status = 1
        /\ pc # "exit" => exit_status = -1
        /\ pc = "prepare" =>
               \E k \in 1..Len(args.start_serial_number) :
                   args.start_serial_number[k] \notin DecimalDigitChars
        /\ output_dir = {}
        /\ full_s10_id = <<>>
        /\ files = <<>>
        /\ stdout = <<>>
        /\ i = 0

\* The indicator "A1" has been refused with nothing made
C5_Witness ==
    /\ pc = "exit"
    /\ args.service_indicator = <<"A", "1">>
    /\ args.quantity > 0
    /\ exit_status = 1
    /\ output_dir = {}
    /\ files = <<>>

\* What holds once the generation at position k = i has failed: a rendering
\* failure leaves no file of position k; a failure to write the progress line
\* comes after the file of position k was saved
C9_AfterFailure ==
    \A j \in 1..Len(stderr) :
        IsGenerationError(stderr[j]) =>
            /\ pc = "exit"
            /\ exit_status = 1
            /\ Len(stderr) = 1
            /\ full_s10_id =
                   si \o sn_str_of(start_sn + i)
                      \o SubSeq(full_s10_id, Len(si) + 9, Len(si) + 9) \o cc
            /\ IF IsRenderingError(stderr[j])
               THEN stderr[j].id = full_s10_id /\ Len(files) = i
               ELSE Len(files) = i + 1 /\ files[i + 1].barcode = full_s10_id
            /\ \A k \in 1..Len(files) : DecimalValue(SerialOfFile(k)) <= start_sn + i
            /\ \A k \in 1..Len(stdout) :
                   /\ stdout[k].msg # "Batch generation complete."
                   /\ stdout[k].msg = "Generated" => stdout[k].n <= i

\* A step after the process has exited changes nothing, and a step never
\* changes or removes a file saved before it
C9_Step ==
    /\ pc = "exit" => UNCHANGED vars
    /\ Len(files') >= Len(files)
    /\ SubSeq(files', 1, Len(files)) = files

\* C9: batch generation is fail-fast: if generating the identifier at position
\* k fails, the process exits with a non-zero status at once, no identifier at
\* a later position is computed or written, the closing step is never reached,
\* the files of positions 0..k-1 stay unchanged, and position k is not retried.
C9_FailFast == [](C9_AfterFailure) /\ [][C9_Step]_vars

\* A rendering failure at position 2 (or later), after files have been saved
C9_Witness ==
    /\ pc = "exit"
    /\ Len(stderr) = 1
    /\ IsRenderingError(stderr[1])
    /\ i >= 2
    /\ Len(files) = i
    /\ args.quantity > i + 1

====
